---------------------------- MODULE Spec2Model ----------------------------
(***************************************************************************)
(* Model of api/generate-payment.js: one serverless request handler that   *)
(* validates a request, loads the link and the account document            *)
(* concurrently, selects a payment gateway by the account's activeGateway, *)
(* issues one outbound HTTP call and normalises the provider's answer.     *)
(*                                                                         *)
(* One behaviour of the model is one invocation of handler(request,        *)
(* response).  The CORS middleware, the document store and the gateways    *)
(* are the environment: their outcomes are chosen nondeterministically.    *)
(* JavaScript strings are TLA+ strings; messages are written without       *)
(* diacritics.  Undefined stands for a missing / undefined value.          *)
(***************************************************************************)
EXTENDS Integers, Sequences, FiniteSets, TLC

VARIABLES
    request,          \* the incoming request: method, hasBody, body
    pc,               \* position of handler
    corsResult,       \* outcome of runMiddleware(request, response, cors)
    bodyRead,         \* request.body has been read (line 72)
    linkGet,          \* state of the promise linkRef.get()
    accountGet,       \* state of the promise accountRef.get()
    linkDoc,          \* snapshot the link lookup resolved with
    accountDoc,       \* snapshot the account lookup resolved with
    firstRejection,   \* which lookup rejected first (what Promise.all rejects with)
    amountInCents,    \* Math.round(linkData.planValue * 100), rendered
    fetchCalls,       \* outbound gateway calls issued, in order
    gatewayResponse,  \* what the gateway answered to the last call
    responses         \* responses written to the caller, in order

vars == <<request, pc, corsResult, bodyRead, linkGet, accountGet, linkDoc,
          accountDoc, firstRejection, amountInCents, fetchCalls,
          gatewayResponse, responses>>

-----------------------------------------------------------------------------
(* Values *)

Undefined == "<undefined>"

\* `${v}` / String(v) of a string or undefined value
Render(v) == IF v = Undefined THEN "undefined" ELSE v

\* !v for a string or undefined value
Falsy(v) == v = Undefined \/ v = ""

\* s contains sub as a substring
Contains(s, sub) ==
    \E i \in 1..(Len(s) - Len(sub) + 1) : SubSeq(s, i, i + Len(sub) - 1) = sub

\* Cap on the outbound calls one invocation may record.
MaxFetchCalls == 2

Methods == {"OPTIONS", "POST", "GET", "PUT"}

LinkIds == {Undefined, "", "link1"}

AccountIds == {Undefined, "", "acct1"}

CustomerNames == {Undefined, "", "Maria"}

NoBody == [linkId |-> Undefined, accountId |-> Undefined, customerName |-> Undefined]

Bodies == [linkId : LinkIds, accountId : AccountIds, customerName : CustomerNames]

Requests ==
    {[method |-> m, hasBody |-> FALSE, body |-> NoBody] : m \in Methods}
    \cup {[method |-> m, hasBody |-> TRUE, body |-> b] : m \in Methods, b \in Bodies}

-----------------------------------------------------------------------------
(* Responses *)

NoJson == [keys |-> {}, success |-> FALSE, error |-> Undefined,
           pixCode |-> Undefined, qrCodeImage |-> Undefined]

\* JSON.stringify of an object: a key whose value is undefined is left out
JsonStringify(obj) ==
    [obj EXCEPT !.keys = {k \in obj.keys : k = "success" \/ obj[k] # Undefined}]

\* response.status(s).end()
EndResponse(s) ==
    [status |-> s, allow |-> Undefined, kind |-> "none", text |-> "", json |-> NoJson]

\* response.setHeader('Allow', a); response.status(s).send(t)
SendResponse(s, a, t) ==
    [status |-> s, allow |-> a, kind |-> "text", text |-> t, json |-> NoJson]

\* response.status(s).json(obj)
JsonResponse(s, obj) ==
    [status |-> s, allow |-> Undefined, kind |-> "json", text |-> "",
     json |-> JsonStringify(obj)]

\* { success: false, error: msg }
ErrorEnvelope(msg) ==
    [keys |-> {"success", "error"}, success |-> FALSE, error |-> msg,
     pixCode |-> Undefined, qrCodeImage |-> Undefined]

\* { success: true, ...pixData }
SuccessEnvelope(pixData) ==
    [keys |-> {"success", "pixCode", "qrCodeImage"}, success |-> TRUE,
     error |-> Undefined, pixCode |-> pixData.pixCode,
     qrCodeImage |-> pixData.qrCodeImage]

MsgIncomplete == "Dados incompletos: linkId, accountId e customerName sao obrigatorios."
MsgLinkNotFound == "Link de pagamento nao encontrado."
MsgAccountNotFound == "Conta de configuracao nao encontrada."
MsgMethodNotAllowed == "Metodo nao permitido"

-----------------------------------------------------------------------------
(* Initial state: handler has been called and awaits the CORS middleware *)

NoDoc == [exists |-> FALSE, hasPlanValue |-> FALSE, planValue |-> 0]

NoAccount ==
    [exists |-> FALSE, activeGateway |-> Undefined, hasSettings |-> FALSE,
     gatewaySettings |-> [buckpay_token |-> Undefined, zeroonepay_token |-> Undefined,
                          zeroonepay_offer_hash |-> Undefined,
                          zeroonepay_product_hash |-> Undefined]]

NoGatewayResponse ==
    [received |-> FALSE, ok |-> FALSE, isJson |-> FALSE, isObject |-> FALSE,
     message |-> Undefined, success |-> FALSE, hasData |-> FALSE, hasPix |-> FALSE,
     code |-> Undefined, qrcode_base64 |-> Undefined,
     pix_code |-> Undefined, qrcode_image |-> Undefined]

Init ==
    /\ request \in Requests
    /\ pc = "cors"
    /\ corsResult = "pending"
    /\ bodyRead = FALSE
    /\ linkGet = "idle"
    /\ accountGet = "idle"
    /\ linkDoc = NoDoc
    /\ accountDoc = NoAccount
    /\ firstRejection = "none"
    /\ amountInCents = Undefined
    /\ fetchCalls = <<>>
    /\ gatewayResponse = NoGatewayResponse
    /\ responses = <<>>

-----------------------------------------------------------------------------
(* runMiddleware: the middleware calls back with nothing or with an Error *)

\* line 47: resolve(result); handler resumes after line 57
CorsNext ==
    /\ pc = "cors"
    /\ pc' = "dispatch"
    /\ corsResult' = "next"
    /\ UNCHANGED <<request, bodyRead, linkGet, accountGet, linkDoc, accountDoc,
                   firstRejection, amountInCents, fetchCalls, gatewayResponse,
                   responses>>

\* line 45: reject(result); the await of line 57 is outside the try block, so
\* the promise handler returned is rejected and nothing is written
CorsError ==
    /\ pc = "cors"
    /\ pc' = "rejected"
    /\ corsResult' = "error"
    /\ UNCHANGED <<request, bodyRead, linkGet, accountGet, linkDoc, accountDoc,
                   firstRejection, amountInCents, fetchCalls, gatewayResponse,
                   responses>>

-----------------------------------------------------------------------------
(* Writing a response; the catch block of handler *)

Respond(r) == responses' = Append(responses, r)

\* lines 182-185: catch (error) { response.status(500).json({success:false,
\* error: error.message}) }, reached by every throw between lines 78 and 181
Throw(msg) ==
    /\ Respond(JsonResponse(500, ErrorEnvelope(msg)))
    /\ pc' = "done"

-----------------------------------------------------------------------------
(* Lines 59-76: method dispatch and validation *)

\* The mutant lets every method but OPTIONS through to validation.
MethodDispatchNoMethodCheck(method) ==
    IF method = "OPTIONS" THEN "options" ELSE "post"

\* lines 60 and 66: which branch a method takes
MethodDispatch(method) ==
    IF method = "OPTIONS" THEN "options"
    ELSE IF method # "POST" THEN "not_allowed"
    ELSE "post"

\* line 74: !linkId || !accountId || !customerName
MissingFields(body) ==
    Falsy(body.linkId) \/ Falsy(body.accountId) \/ Falsy(body.customerName)

\* lines 60-63
HandleOptions ==
    /\ pc = "dispatch"
    /\ MethodDispatch(request.method) = "options"
    /\ Respond(EndResponse(200))
    /\ pc' = "done"
    /\ UNCHANGED <<request, corsResult, bodyRead, linkGet, accountGet, linkDoc,
                   accountDoc, firstRejection, amountInCents, fetchCalls,
                   gatewayResponse>>

\* lines 66-70
MethodNotAllowed ==
    /\ pc = "dispatch"
    /\ MethodDispatch(request.method) = "not_allowed"
    /\ Respond(SendResponse(405, "POST", MsgMethodNotAllowed))
    /\ pc' = "done"
    /\ UNCHANGED <<request, corsResult, bodyRead, linkGet, accountGet, linkDoc,
                   accountDoc, firstRejection, amountInCents, fetchCalls,
                   gatewayResponse>>

\* line 72 with request.body undefined: the destructuring throws a TypeError
\* outside the try block, so handler's promise is rejected, nothing is written
BodyAbsent ==
    /\ pc = "dispatch"
    /\ MethodDispatch(request.method) = "post"
    /\ ~request.hasBody
    /\ bodyRead' = TRUE
    /\ pc' = "rejected"
    /\ UNCHANGED <<request, corsResult, linkGet, accountGet, linkDoc, accountDoc,
                   firstRejection, amountInCents, fetchCalls, gatewayResponse,
                   responses>>

\* lines 72-76
RespondIncomplete ==
    /\ pc = "dispatch"
    /\ MethodDispatch(request.method) = "post"
    /\ request.hasBody
    /\ MissingFields(request.body)
    /\ bodyRead' = TRUE
    /\ Respond(JsonResponse(400, ErrorEnvelope(MsgIncomplete)))
    /\ pc' = "done"
    /\ UNCHANGED <<request, corsResult, linkGet, accountGet, linkDoc, accountDoc,
                   firstRejection, amountInCents, fetchCalls, gatewayResponse>>

-----------------------------------------------------------------------------
(* Lines 80-83: the two lookups and Promise.all *)

\* lines 72-83: both get() calls are made, then handler awaits Promise.all
StartLookups ==
    /\ pc = "dispatch"
    /\ MethodDispatch(request.method) = "post"
    /\ request.hasBody
    /\ ~MissingFields(request.body)
    /\ bodyRead' = TRUE
    /\ linkGet' = "pending"
    /\ accountGet' = "pending"
    /\ pc' = "await_all"
    /\ UNCHANGED <<request, corsResult, linkDoc, accountDoc, firstRejection,
                   amountInCents, fetchCalls, gatewayResponse, responses>>

\* planValue is kept in thousandths of the currency unit
PlanValues == {10000, 19990, 10004, 10006}

LinkDocs ==
    {NoDoc, [exists |-> TRUE, hasPlanValue |-> FALSE, planValue |-> 0]}
    \cup {[exists |-> TRUE, hasPlanValue |-> TRUE, planValue |-> v] : v \in PlanValues}

Gateways == {Undefined, "buckpay", "zeroonepay", "unknown-provider"}

CredValues == {Undefined, "", "tok"}

Settings ==
    [buckpay_token : CredValues, zeroonepay_token : CredValues,
     zeroonepay_offer_hash : CredValues, zeroonepay_product_hash : CredValues]

AccountDocs ==
    {NoAccount}
    \cup {[NoAccount EXCEPT !.exists = TRUE, !.activeGateway = g] : g \in Gateways}
    \cup {[exists |-> TRUE, activeGateway |-> g, hasSettings |-> TRUE,
           gatewaySettings |-> gs] : g \in Gateways, gs \in Settings}

\* linkRef.get() resolves with a snapshot
LinkGetResolves ==
    /\ linkGet = "pending"
    /\ \E d \in LinkDocs : linkDoc' = d
    /\ linkGet' = "resolved"
    /\ UNCHANGED <<request, pc, corsResult, bodyRead, accountGet, accountDoc,
                   firstRejection, amountInCents, fetchCalls, gatewayResponse,
                   responses>>

\* linkRef.get() rejects
LinkGetRejects ==
    /\ linkGet = "pending"
    /\ linkGet' = "rejected"
    /\ firstRejection' = IF firstRejection = "none" THEN "link" ELSE firstRejection
    /\ UNCHANGED <<request, pc, corsResult, bodyRead, accountGet, linkDoc,
                   accountDoc, amountInCents, fetchCalls, gatewayResponse,
                   responses>>

\* accountRef.get() resolves with a snapshot
AccountGetResolves ==
    /\ accountGet = "pending"
    /\ \E d \in AccountDocs : accountDoc' = d
    /\ accountGet' = "resolved"
    /\ UNCHANGED <<request, pc, corsResult, bodyRead, linkGet, linkDoc,
                   firstRejection, amountInCents, fetchCalls, gatewayResponse,
                   responses>>

\* accountRef.get() rejects
AccountGetRejects ==
    /\ accountGet = "pending"
    /\ accountGet' = "rejected"
    /\ firstRejection' = IF firstRejection = "none" THEN "account" ELSE firstRejection
    /\ UNCHANGED <<request, pc, corsResult, bodyRead, linkGet, linkDoc,
                   accountDoc, amountInCents, fetchCalls, gatewayResponse,
                   responses>>

\* The mutant resumes as soon as one of the two lookups has resolved.
AnyResolved == linkGet = "resolved" \/ accountGet = "resolved"

\* line 83: Promise.all resolves when both promises have resolved
AllResolved == linkGet = "resolved" /\ accountGet = "resolved"

\* error.message of a rejected lookup
LookupErrorMessage(which) ==
    IF which = "link" THEN "link lookup failed" ELSE "account lookup failed"

\* line 83: Promise.all rejects with the first rejection; caught at line 182
LookupFailed ==
    /\ pc = "await_all"
    /\ firstRejection # "none"
    /\ Throw(LookupErrorMessage(firstRejection))
    /\ UNCHANGED <<request, corsResult, bodyRead, linkGet, accountGet, linkDoc,
                   accountDoc, firstRejection, amountInCents, fetchCalls,
                   gatewayResponse>>

\* The mutant tests the account document before the link document.
NotFoundAccountFirst(link, account) ==
    IF ~account.exists THEN "account"
    ELSE IF ~link.exists THEN "link"
    ELSE "none"

\* lines 85-90: which not-found answer the two snapshots give
NotFound(link, account) ==
    IF ~link.exists THEN "link"
    ELSE IF ~account.exists THEN "account"
    ELSE "none"

\* lines 85-87
RespondLinkNotFound ==
    /\ pc = "await_all"
    /\ AllResolved
    /\ NotFound(linkDoc, accountDoc) = "link"
    /\ Respond(JsonResponse(404, ErrorEnvelope(MsgLinkNotFound)))
    /\ pc' = "done"
    /\ UNCHANGED <<request, corsResult, bodyRead, linkGet, accountGet, linkDoc,
                   accountDoc, firstRejection, amountInCents, fetchCalls,
                   gatewayResponse>>

\* lines 88-90
RespondAccountNotFound ==
    /\ pc = "await_all"
    /\ AllResolved
    /\ NotFound(linkDoc, accountDoc) = "account"
    /\ Respond(JsonResponse(404, ErrorEnvelope(MsgAccountNotFound)))
    /\ pc' = "done"
    /\ UNCHANGED <<request, corsResult, bodyRead, linkGet, accountGet, linkDoc,
                   accountDoc, firstRejection, amountInCents, fetchCalls,
                   gatewayResponse>>

\* Math.round(planValue * 100) for a planValue given in thousandths, rendered
\* as the number prints; a missing planValue gives NaN
MathRoundTimes100(doc) ==
    IF doc.hasPlanValue THEN ToString((doc.planValue + 5) \div 10) ELSE "NaN"

\* lines 92-97
LoadConfig ==
    /\ pc = "await_all"
    /\ AllResolved
    /\ NotFound(linkDoc, accountDoc) = "none"
    /\ amountInCents' = MathRoundTimes100(linkDoc)
    /\ pc' = "select"
    /\ UNCHANGED <<request, corsResult, bodyRead, linkGet, accountGet, linkDoc,
                   accountDoc, firstRejection, fetchCalls, gatewayResponse,
                   responses>>

-----------------------------------------------------------------------------
(* Lines 102-176: gateway selection and the outbound call *)

NoCall ==
    [url |-> Undefined, method |-> Undefined, contentType |-> Undefined,
     authorization |-> Undefined, userAgent |-> Undefined,
     external_id |-> Undefined, amount |-> Undefined, payment_method |-> Undefined,
     api_token |-> Undefined, offer_hash |-> Undefined, product_hash |-> Undefined,
     email |-> Undefined, name |-> Undefined]

BuckpayUrl == "https://api.realtechdev.com.br/v1/transactions"

ZeroOneUrl == "https://api.zeroonepay.com.br/api/public/v1/checkout/pix"

\* the provider an outbound call goes to
ProviderOf(call) ==
    IF call.url = BuckpayUrl THEN "buckpay"
    ELSE IF call.url = ZeroOneUrl THEN "zeroonepay"
    ELSE Undefined

\* The mutant leaves the unrecognised value out of the message.
UnsupportedMessageAnonymous(activeGateway) == "Gateway nao suportado."

\* line 175: `Gateway '${activeGateway}' não suportado.`
UnsupportedMessage(activeGateway) ==
    "Gateway '" \o Render(activeGateway) \o "' nao suportado."

\* lines 174-175: default branch of the switch
UnsupportedGateway ==
    /\ pc = "select"
    /\ accountDoc.activeGateway \notin {"buckpay", "zeroonepay"}
    /\ Throw(UnsupportedMessage(accountDoc.activeGateway))
    /\ UNCHANGED <<request, corsResult, bodyRead, linkGet, accountGet, linkDoc,
                   accountDoc, firstRejection, amountInCents, fetchCalls,
                   gatewayResponse>>

\* line 105: !buckpayToken
BuckpayCredentialsMissing(gatewaySettings) == Falsy(gatewaySettings.buckpay_token)

\* lines 104-105: gatewaySettings undefined throws a TypeError, an empty token
\* throws the configuration error; both are caught at line 182
BuckpayConfigError ==
    /\ pc = "select"
    /\ accountDoc.activeGateway = "buckpay"
    /\ \/ /\ ~accountDoc.hasSettings
          /\ Throw("Cannot read properties of undefined (reading 'buckpay_token')")
       \/ /\ accountDoc.hasSettings
          /\ BuckpayCredentialsMissing(accountDoc.gatewaySettings)
          /\ Throw("Token da BuckPay nao configurado.")
    /\ UNCHANGED <<request, corsResult, bodyRead, linkGet, accountGet, linkDoc,
                   accountDoc, firstRejection, amountInCents, fetchCalls,
                   gatewayResponse>>

\* JSON.stringify of a number: NaN is written as null
JsonNumber(n) == IF n = "NaN" THEN "null" ELSE n

\* lines 108-120: the request sent to BuckPay
BuckpayCall ==
    [NoCall EXCEPT !.url = BuckpayUrl, !.method = "POST",
                   !.contentType = "application/json",
                   !.authorization = "Bearer " \o accountDoc.gatewaySettings.buckpay_token,
                   !.userAgent = "Buckpay API",
                   !.external_id = request.body.linkId,
                   !.amount = JsonNumber(amountInCents),
                   !.payment_method = "pix"]

\* lines 104-120: fetch is called and awaited
BuckpayFetch ==
    /\ pc = "select"
    /\ accountDoc.activeGateway = "buckpay"
    /\ accountDoc.hasSettings
    /\ ~BuckpayCredentialsMissing(accountDoc.gatewaySettings)
    /\ Len(fetchCalls) < MaxFetchCalls
    /\ fetchCalls' = Append(fetchCalls, BuckpayCall)
    /\ pc' = "await_fetch"
    /\ UNCHANGED <<request, corsResult, bodyRead, linkGet, accountGet, linkDoc,
                   accountDoc, firstRejection, amountInCents, gatewayResponse,
                   responses>>

\* The mutant tests the API token only.
ZeroOneCredentialsMissingTokenOnly(gatewaySettings) ==
    Falsy(gatewaySettings.zeroonepay_token)

\* line 137: !zeroonepay_token || !zeroonepay_offer_hash || !zeroonepay_product_hash
ZeroOneCredentialsMissing(gatewaySettings) ==
    \/ Falsy(gatewaySettings.zeroonepay_token)
    \/ Falsy(gatewaySettings.zeroonepay_offer_hash)
    \/ Falsy(gatewaySettings.zeroonepay_product_hash)

\* lines 136-139: gatewaySettings undefined makes the destructuring throw a
\* TypeError, a missing credential throws the configuration error
ZeroOneConfigError ==
    /\ pc = "select"
    /\ accountDoc.activeGateway = "zeroonepay"
    /\ \/ /\ ~accountDoc.hasSettings
          /\ Throw("Cannot destructure property 'zeroonepay_token' of 'gatewaySettings' as it is undefined.")
       \/ /\ accountDoc.hasSettings
          /\ ZeroOneCredentialsMissing(accountDoc.gatewaySettings)
          /\ Throw("Credenciais da ZeroOnePay incompletas.")
    /\ UNCHANGED <<request, corsResult, bodyRead, linkGet, accountGet, linkDoc,
                   accountDoc, firstRejection, amountInCents, fetchCalls,
                   gatewayResponse>>

\* lines 142-150: the request sent to ZeroOnePay, its parameters in the query
ZeroOneCall ==
    [NoCall EXCEPT !.url = ZeroOneUrl, !.method = "POST",
                   !.api_token = accountDoc.gatewaySettings.zeroonepay_token,
                   !.offer_hash = accountDoc.gatewaySettings.zeroonepay_offer_hash,
                   !.product_hash = accountDoc.gatewaySettings.zeroonepay_product_hash,
                   !.email = "cliente@email.com",
                   !.name = request.body.customerName,
                   !.amount = amountInCents]

\* lines 136-150: fetch is called and awaited
ZeroOneFetch ==
    /\ pc = "select"
    /\ accountDoc.activeGateway = "zeroonepay"
    /\ accountDoc.hasSettings
    /\ ~ZeroOneCredentialsMissing(accountDoc.gatewaySettings)
    /\ Len(fetchCalls) < MaxFetchCalls
    /\ fetchCalls' = Append(fetchCalls, ZeroOneCall)
    /\ pc' = "await_fetch"
    /\ UNCHANGED <<request, corsResult, bodyRead, linkGet, accountGet, linkDoc,
                   accountDoc, firstRejection, amountInCents, gatewayResponse,
                   responses>>

-----------------------------------------------------------------------------
(* Lines 108-167: the gateway's answer *)

MessageValues == {Undefined, "", "Saldo insuficiente"}

\* an answer whose body is not JSON, or is the JSON value null
BareResponses ==
    {[NoGatewayResponse EXCEPT !.received = TRUE, !.ok = ok, !.isJson = j] :
        ok \in BOOLEAN, j \in BOOLEAN}

\* answers whose body is a JSON object
ObjectResponses ==
    {[NoGatewayResponse EXCEPT !.received = TRUE, !.ok = ok, !.isJson = TRUE,
                               !.isObject = TRUE, !.message = m] :
        ok \in BOOLEAN, m \in MessageValues}

\* what BuckPay may answer: data and data.pix present or not, its fields too
BuckpayResponses ==
    BareResponses
    \cup ObjectResponses
    \cup {[r EXCEPT !.hasData = TRUE] : r \in ObjectResponses}
    \cup {[r EXCEPT !.hasData = TRUE, !.hasPix = TRUE, !.code = c,
                    !.qrcode_base64 = q] :
            r \in ObjectResponses, c \in {Undefined, "ABC"}, q \in {Undefined, "Zm9v"}}

\* what ZeroOnePay may answer: success flag, data present or not, its fields too
ZeroOneResponses ==
    BareResponses
    \cup {[r EXCEPT !.success = s] : r \in ObjectResponses, s \in BOOLEAN}
    \cup {[r EXCEPT !.success = s, !.hasData = TRUE, !.pix_code = c,
                    !.qrcode_image = q] :
            r \in ObjectResponses, s \in BOOLEAN, c \in {Undefined, "XYZ"},
            q \in {Undefined, "https://img/x.png"}}

\* The mutant goes back to the switch and calls the gateway again.
GatewayErrorRetry(msg) ==
    /\ pc' = "select"
    /\ UNCHANGED responses

\* a throw between lines 108 and 161, after fetch was called: caught at line 182
GatewayError(msg) == Throw(msg)

\* lines 108 and 150: the awaited fetch rejects
FetchRejects ==
    /\ pc = "await_fetch"
    /\ GatewayError("fetch failed")
    /\ UNCHANGED <<request, corsResult, bodyRead, linkGet, accountGet, linkDoc,
                   accountDoc, firstRejection, amountInCents, fetchCalls,
                   gatewayResponse>>

\* lines 108 and 150: the awaited fetch resolves with the gateway's answer
FetchResponds ==
    /\ pc = "await_fetch"
    /\ \E r \in (IF accountDoc.activeGateway = "buckpay" THEN BuckpayResponses
                 ELSE ZeroOneResponses) : gatewayResponse' = r
    /\ pc' = "got_response"
    /\ UNCHANGED <<request, corsResult, bodyRead, linkGet, accountGet, linkDoc,
                   accountDoc, firstRejection, amountInCents, fetchCalls,
                   responses>>

\* error.message of the SyntaxError response.json() rejects with
JsonSyntaxError == "Unexpected token < in JSON at position 0"

\* error.message of the TypeError reading property p of null or undefined throws
PropertyError(of, p) == "Cannot read properties of " \o of \o " (reading '" \o p \o "')"

\* lines 123-125 for BuckPay: the Error thrown for a non-success status
BuckpayErrorMessage(r) ==
    IF ~r.isJson THEN JsonSyntaxError
    ELSE IF ~r.isObject THEN PropertyError("null", "message")
    ELSE IF Falsy(r.message) THEN "Erro na API BuckPay"
    ELSE r.message

\* lines 122-126
BuckpayNotOk ==
    /\ pc = "got_response"
    /\ accountDoc.activeGateway = "buckpay"
    /\ ~gatewayResponse.ok
    /\ GatewayError(BuckpayErrorMessage(gatewayResponse))
    /\ UNCHANGED <<request, corsResult, bodyRead, linkGet, accountGet, linkDoc,
                   accountDoc, firstRejection, amountInCents, fetchCalls,
                   gatewayResponse>>

\* lines 128-131: the success body cannot be parsed or lacks data or data.pix
BuckpayUnreadable(r) == ~r.isJson \/ ~r.isObject \/ ~r.hasData \/ ~r.hasPix

\* lines 128-131: the error thrown while reading the success body
BuckpayReadError(r) ==
    IF ~r.isJson THEN JsonSyntaxError
    ELSE IF ~r.isObject THEN PropertyError("null", "data")
    ELSE IF ~r.hasData THEN PropertyError("undefined", "pix")
    ELSE PropertyError("undefined", "code")

\* lines 128-131 throwing
BuckpayMalformed ==
    /\ pc = "got_response"
    /\ accountDoc.activeGateway = "buckpay"
    /\ gatewayResponse.ok
    /\ BuckpayUnreadable(gatewayResponse)
    /\ GatewayError(BuckpayReadError(gatewayResponse))
    /\ UNCHANGED <<request, corsResult, bodyRead, linkGet, accountGet, linkDoc,
                   accountDoc, firstRejection, amountInCents, fetchCalls,
                   gatewayResponse>>

\* lines 129-132
BuckpayPixData(r) ==
    [pixCode |-> r.code,
     qrCodeImage |-> "data:image/png;base64," \o Render(r.qrcode_base64)]

\* lines 128-133 and 180
BuckpaySuccess ==
    /\ pc = "got_response"
    /\ accountDoc.activeGateway = "buckpay"
    /\ gatewayResponse.ok
    /\ ~BuckpayUnreadable(gatewayResponse)
    /\ Respond(JsonResponse(200, SuccessEnvelope(BuckpayPixData(gatewayResponse))))
    /\ pc' = "done"
    /\ UNCHANGED <<request, corsResult, bodyRead, linkGet, accountGet, linkDoc,
                   accountDoc, firstRejection, amountInCents, fetchCalls,
                   gatewayResponse>>

\* lines 153-155 for ZeroOnePay: the Error thrown for a non-success status
ZeroOneErrorMessage(r) ==
    IF ~r.isJson THEN JsonSyntaxError
    ELSE IF ~r.isObject THEN PropertyError("null", "message")
    ELSE IF Falsy(r.message) THEN "Erro na API ZeroOnePay"
    ELSE r.message

\* lines 152-156
ZeroOneNotOk ==
    /\ pc = "got_response"
    /\ accountDoc.activeGateway = "zeroonepay"
    /\ ~gatewayResponse.ok
    /\ GatewayError(ZeroOneErrorMessage(gatewayResponse))
    /\ UNCHANGED <<request, corsResult, bodyRead, linkGet, accountGet, linkDoc,
                   accountDoc, firstRejection, amountInCents, fetchCalls,
                   gatewayResponse>>

\* lines 158-159: the body cannot be parsed, is null, or
\* !zeroOneResult.success || !zeroOneResult.data
ZeroOneRefused(r) == ~r.isJson \/ ~r.isObject \/ ~r.success \/ ~r.hasData

\* lines 158-160: the error thrown for such a body
ZeroOneRefusedMessage(r) ==
    IF ~r.isJson THEN JsonSyntaxError
    ELSE IF ~r.isObject THEN PropertyError("null", "success")
    ELSE IF Falsy(r.message) THEN "Falha ao gerar PIX na ZeroOnePay."
    ELSE r.message

\* lines 158-161
ZeroOneFailed ==
    /\ pc = "got_response"
    /\ accountDoc.activeGateway = "zeroonepay"
    /\ gatewayResponse.ok
    /\ ZeroOneRefused(gatewayResponse)
    /\ GatewayError(ZeroOneRefusedMessage(gatewayResponse))
    /\ UNCHANGED <<request, corsResult, bodyRead, linkGet, accountGet, linkDoc,
                   accountDoc, firstRejection, amountInCents, fetchCalls,
                   gatewayResponse>>

\* lines 163-166
ZeroOnePixData(r) == [pixCode |-> r.pix_code, qrCodeImage |-> r.qrcode_image]

\* lines 158-167 and 180
ZeroOneSuccess ==
    /\ pc = "got_response"
    /\ accountDoc.activeGateway = "zeroonepay"
    /\ gatewayResponse.ok
    /\ ~ZeroOneRefused(gatewayResponse)
    /\ Respond(JsonResponse(200, SuccessEnvelope(ZeroOnePixData(gatewayResponse))))
    /\ pc' = "done"
    /\ UNCHANGED <<request, corsResult, bodyRead, linkGet, accountGet, linkDoc,
                   accountDoc, firstRejection, amountInCents, fetchCalls,
                   gatewayResponse>>

-----------------------------------------------------------------------------
(* The specification *)

Next ==
    \/ CorsNext
    \/ CorsError
    \/ HandleOptions
    \/ MethodNotAllowed
    \/ BodyAbsent
    \/ RespondIncomplete
    \/ StartLookups
    \/ LinkGetResolves
    \/ LinkGetRejects
    \/ AccountGetResolves
    \/ AccountGetRejects
    \/ LookupFailed
    \/ RespondLinkNotFound
    \/ RespondAccountNotFound
    \/ LoadConfig
    \/ UnsupportedGateway
    \/ BuckpayConfigError
    \/ BuckpayFetch
    \/ ZeroOneConfigError
    \/ ZeroOneFetch
    \/ FetchRejects
    \/ FetchResponds
    \/ BuckpayNotOk
    \/ BuckpayMalformed
    \/ BuckpaySuccess
    \/ ZeroOneNotOk
    \/ ZeroOneFailed
    \/ ZeroOneSuccess

Spec == Init /\ [][Next]_vars

-----------------------------------------------------------------------------
(* Vocabulary of the properties *)

Finished == pc \in {"done", "rejected"}

NoLookup == linkGet = "idle" /\ accountGet = "idle"

NoFetch == fetchCalls = <<>>

BothCompleted == linkGet = "resolved" /\ accountGet = "resolved"

BothExist == BothCompleted /\ linkDoc.exists /\ accountDoc.exists

\* r is a JSON body {success:false, error} sent with the given status
IsErrorEnvelope(r, status) ==
    /\ r.status = status
    /\ r.kind = "json"
    /\ r.json.keys = {"success", "error"}
    /\ r.json.success = FALSE
    /\ r.json.error # Undefined

\* exactly one response was written and it is an error envelope of that status
OnlyError(status) ==
    /\ Len(responses) = 1
    /\ IsErrorEnvelope(responses[1], status)

-----------------------------------------------------------------------------
(* C1 *)

\* C1: a POST request that got past the CORS middleware and in which linkId,
\* accountId or customerName is missing or empty (a request without a body
\* included) is answered 400 {success:false, error}, with no lookup and no
\* gateway call.
C1_MissingFieldIs400 ==
    (/\ corsResult = "next"
     /\ Finished
     /\ request.method = "POST"
     /\ (~request.hasBody \/ Falsy(request.body.linkId)
            \/ Falsy(request.body.accountId) \/ Falsy(request.body.customerName)))
    => (pc = "done" /\ OnlyError(400) /\ NoLookup /\ NoFetch)

-----------------------------------------------------------------------------
(* C2 *)

\* C2: when both lookups have completed, a missing link document gives 404
\* with the link-not-found message, an existing link with a missing account
\* document gives 404 with the distinct account-not-found message, and in
\* neither case is a gateway call issued.
C2_NotFound ==
    /\ MsgLinkNotFound # MsgAccountNotFound
    /\ (BothCompleted /\ (~linkDoc.exists \/ ~accountDoc.exists)) => NoFetch
    /\ (pc = "done" /\ BothCompleted /\ ~linkDoc.exists)
        => (OnlyError(404) /\ responses[1].json.error = MsgLinkNotFound)
    /\ (pc = "done" /\ BothCompleted /\ linkDoc.exists /\ ~accountDoc.exists)
        => (OnlyError(404) /\ responses[1].json.error = MsgAccountNotFound)

\* the account-not-found answer has been given for an existing link
C2_Witness ==
    /\ pc = "done"
    /\ BothCompleted /\ linkDoc.exists /\ ~accountDoc.exists
    /\ OnlyError(404)
    /\ responses[1].json.error = MsgAccountNotFound

-----------------------------------------------------------------------------
(* C3 *)

\* C3: once the middleware has let the request through, OPTIONS is answered
\* 200 with no body and any method other than POST and OPTIONS is answered
\* 405 with Allow: POST; for every method but POST the body is never read
\* and no lookup or gateway call is issued.
C3_MethodDispatch ==
    /\ (corsResult = "next" /\ pc # "dispatch" /\ request.method = "OPTIONS")
        => /\ pc = "done"
           /\ Len(responses) = 1
           /\ responses[1].status = 200
           /\ responses[1].kind = "none"
    /\ (corsResult = "next" /\ pc # "dispatch"
            /\ request.method \notin {"POST", "OPTIONS"})
        => /\ pc = "done"
           /\ Len(responses) = 1
           /\ responses[1].status = 405
           /\ responses[1].allow = "POST"
    /\ (request.method # "POST") => (~bodyRead /\ NoLookup /\ NoFetch)

\* a GET request has been answered 405 with the Allow header
C3_Witness ==
    /\ pc = "done"
    /\ request.method = "GET"
    /\ Len(responses) = 1
    /\ responses[1].status = 405
    /\ responses[1].allow = "POST"

-----------------------------------------------------------------------------
(* C4 *)

\* C4: when link and account both exist and activeGateway is neither
\* 'buckpay' nor 'zeroonepay' (absent included), no gateway call is issued
\* and the answer is 500 {success:false, error} whose error contains the
\* unrecognised value.
C4_UnsupportedGateway ==
    (BothExist /\ accountDoc.activeGateway \notin {"buckpay", "zeroonepay"})
    => /\ NoFetch
       /\ pc \in {"await_all", "select", "done"}
       /\ pc = "done"
           => /\ OnlyError(500)
              /\ Contains(responses[1].json.error, Render(accountDoc.activeGateway))

\* the unsupported-gateway answer has been given for 'unknown-provider'
C4_Witness ==
    /\ pc = "done"
    /\ BothExist
    /\ accountDoc.activeGateway = "unknown-provider"
    /\ OnlyError(500)
    /\ Contains(responses[1].json.error, "unknown-provider")

-----------------------------------------------------------------------------
(* C5 *)

\* the credentials the provider named by the account requires are incomplete
CredentialsIncomplete(account) ==
    \/ /\ account.activeGateway = "buckpay"
       /\ (~account.hasSettings \/ Falsy(account.gatewaySettings.buckpay_token))
    \/ /\ account.activeGateway = "zeroonepay"
       /\ \/ ~account.hasSettings
          \/ Falsy(account.gatewaySettings.zeroonepay_token)
          \/ Falsy(account.gatewaySettings.zeroonepay_offer_hash)
          \/ Falsy(account.gatewaySettings.zeroonepay_product_hash)

\* C5: when the account names an implemented provider and a credential that
\* provider requires is absent or empty, or gatewaySettings is absent, no
\* fetch is ever made and the request ends with 500 {success:false, error}.
C5_MissingCredentials ==
    (BothExist /\ CredentialsIncomplete(accountDoc))
    => /\ NoFetch
       /\ pc \in {"await_all", "select", "done"}
       /\ pc = "done" => OnlyError(500)

\* a zeroonepay account with a token but no offer hash has been answered 500
C5_Witness ==
    /\ pc = "done"
    /\ BothExist
    /\ accountDoc.activeGateway = "zeroonepay"
    /\ accountDoc.hasSettings
    /\ ~Falsy(accountDoc.gatewaySettings.zeroonepay_token)
    /\ Falsy(accountDoc.gatewaySettings.zeroonepay_offer_hash)
    /\ OnlyError(500)
    /\ NoFetch

-----------------------------------------------------------------------------
(* C6 *)

\* C6: handler never ends with an uncaught exception or a rejected promise,
\* whatever fails (CORS middleware, absent body, lookup, configuration,
\* gateway, payload), and a finished invocation has written exactly one
\* response.
C6_NeverUncaught ==
    /\ pc # "rejected"
    /\ Finished => Len(responses) = 1

-----------------------------------------------------------------------------
(* C7 *)

\* the pixCode and qrCodeImage the claim derives from the provider's answer
ExpectedPixCode(gateway, r) == IF gateway = "buckpay" THEN r.code ELSE r.pix_code

ExpectedQrCodeImage(gateway, r) ==
    IF gateway = "buckpay" THEN "data:image/png;base64," \o Render(r.qrcode_base64)
    ELSE r.qrcode_image

\* C7: every 200 answer to a POST has exactly the keys success, pixCode and
\* qrCodeImage, with success true, pixCode and qrCodeImage both strings,
\* taken from the provider's fields as the provider's mapping says.
C7_UniformSuccessShape ==
    \A i \in 1..Len(responses) :
        (request.method = "POST" /\ responses[i].status = 200)
        => /\ responses[i].kind = "json"
           /\ responses[i].json.keys = {"success", "pixCode", "qrCodeImage"}
           /\ responses[i].json.success = TRUE
           /\ responses[i].json.pixCode # Undefined
           /\ responses[i].json.qrCodeImage # Undefined
           /\ responses[i].json.pixCode
                = ExpectedPixCode(accountDoc.activeGateway, gatewayResponse)
           /\ responses[i].json.qrCodeImage
                = ExpectedQrCodeImage(accountDoc.activeGateway, gatewayResponse)

-----------------------------------------------------------------------------
(* C8 *)

\* the gateway failures C8 names: a non-success status, or for zeroonepay a
\* success status whose JSON body has success false or no data
GatewayFailure(gateway, r) ==
    /\ r.received
    /\ \/ ~r.ok
       \/ gateway = "zeroonepay" /\ r.isJson /\ r.isObject /\ (~r.success \/ ~r.hasData)

\* the provider supplied a message
MessageSupplied(r) == r.isJson /\ r.isObject /\ ~Falsy(r.message)

\* the provider-specific generic message
Fallback(gateway, r) ==
    IF gateway = "buckpay" THEN "Erro na API BuckPay"
    ELSE IF ~r.ok THEN "Erro na API ZeroOnePay"
    ELSE "Falha ao gerar PIX na ZeroOnePay."

\* C8: after a gateway failure the answer is never 200: it is 500
\* {success:false, error} whose error is the provider's message when the
\* provider supplied one and the provider's generic fallback otherwise.
C8_GatewayFailureIs500 ==
    (pc = "done" /\ ~NoFetch
        /\ GatewayFailure(accountDoc.activeGateway, gatewayResponse))
    => /\ OnlyError(500)
       /\ responses[1].json.error
            = IF MessageSupplied(gatewayResponse) THEN gatewayResponse.message
              ELSE Fallback(accountDoc.activeGateway, gatewayResponse)

-----------------------------------------------------------------------------
(* C9 *)

\* the one gateway call failed: fetch rejected, the status was not a success,
\* or the body could not be read (not JSON, null, lacking the objects the
\* provider's mapping reads, or refused by zeroonepay's success/data test)
CallFailed ==
    /\ ~NoFetch
    /\ \/ ~gatewayResponse.received
       \/ ~gatewayResponse.ok
       \/ ~gatewayResponse.isJson
       \/ ~gatewayResponse.isObject
       \/ ~gatewayResponse.hasData
       \/ accountDoc.activeGateway = "buckpay" /\ ~gatewayResponse.hasPix
       \/ accountDoc.activeGateway = "zeroonepay" /\ ~gatewayResponse.success

\* C9: at most one gateway call is issued per request, to the provider named
\* by activeGateway; nothing is answered before that call is settled, and
\* once it has failed no further call or lookup is made and the single
\* response is the 500 error.
C9_NoRetry ==
    /\ Len(fetchCalls) <= 1
    /\ ~NoFetch
        => /\ accountDoc.activeGateway \in {"buckpay", "zeroonepay"}
           /\ ProviderOf(fetchCalls[1]) = accountDoc.activeGateway
           /\ BothCompleted
           /\ pc \in {"await_fetch", "got_response", "done"}
           /\ pc # "done" => responses = <<>>
    /\ (pc = "done" /\ CallFailed) => OnlyError(500)

\* a call answered with a non-success status has been reported, once
C9_Witness ==
    /\ pc = "done"
    /\ Len(fetchCalls) = 1
    /\ gatewayResponse.received
    /\ ~gatewayResponse.ok
    /\ OnlyError(500)

-----------------------------------------------------------------------------
(* C10 *)

\* C10: both lookups are started before the wait; handler goes on to gateway
\* selection, and answers 200 or 404, only when both have resolved, so no
\* gateway call precedes the completion of both; once a lookup has rejected
\* no gateway call is ever issued and the request ends with the 500 error,
\* whatever the other lookup does afterwards.
C10_ConcurrentLookups ==
    /\ (linkGet = "idle") <=> (accountGet = "idle")
    /\ pc = "await_all" => (linkGet # "idle" /\ accountGet # "idle")
    /\ (pc \in {"select", "await_fetch", "got_response"} \/ ~NoFetch) => BothCompleted
    /\ \A i \in 1..Len(responses) :
          responses[i].status \in {200, 404} /\ request.method = "POST" => BothCompleted
    /\ firstRejection # "none"
        => /\ NoFetch
           /\ pc \in {"await_all", "done"}
           /\ pc = "done" => OnlyError(500)

\* the account lookup rejected and the request was answered 500 while the
\* link lookup was still pending
C10_Witness ==
    /\ pc = "done"
    /\ firstRejection = "account"
    /\ linkGet = "pending"
    /\ OnlyError(500)
    /\ NoFetch

=============================================================================
